---- MODULE Spec2Model ----
(***************************************************************************)
(* One declaration of media_mix_model (lightweight_mmm/models.py) as a     *)
(* state machine.  The state is the trace of sites declared so far, the    *)
(* local variables of the function and the position in its body.           *)
(*                                                                         *)
(* Numbers are stored as integers.  intercept, sigma, the coefficients,    *)
(* prediction and mu are stored in halves (the stored 3 is 1.5); the media *)
(* tensors are stored as they are.  A half times a whole is a half, so the *)
(* contraction needs no rescaling.                                         *)
(*                                                                         *)
(* The numerical primitives of media_transforms and the samplers of        *)
(* numpyro are not part of models.py: a primitive call is recorded with    *)
(* the arguments it receives, and its numerical result and the value drawn *)
(* at a sample site are taken from bounded families of tensors.            *)
(***************************************************************************)
EXTENDS Integers, Sequences, FiniteSets, TLC

\* ------------------------------------------------------------ bounds
MaxT == 3
MaxC == 4
MaxG == 3
MaxRank == 4
MaxOverrides == 1
MaxSeed == 1
MaxFeatures == 2

\* ------------------------------------------------------------ names
INTERCEPT == "intercept"
COEF_TREND == "coef_trend"
SIGMA == "sigma"
COEF_EXTRA_FEATURES == "coef_extra_features"

MODEL_PRIORS_NAMES == {INTERCEPT, COEF_TREND, SIGMA, COEF_EXTRA_FEATURES}

EXPONENT == "exponent"
LAG_WEIGHT == "lag_weight"
HALF_MAX_EFFECTIVE_CONCENTRATION == "half_max_effective_concentration"
SLOPE == "slope"
AD_EFFECT_RETENTION_RATE == "ad_effect_retention_rate"
PEAK_EFFECT_DELAY == "peak_effect_delay"

TRANSFORM_PRIORS_NAMES ==
  [carryover |-> {AD_EFFECT_RETENTION_RATE, PEAK_EFFECT_DELAY, EXPONENT},
   adstock |-> {EXPONENT, LAG_WEIGHT},
   hill_adstock |-> {LAG_WEIGHT, HALF_MAX_EFFECTIVE_CONCENTRATION, SLOPE},
   exponential_adstock |-> {LAG_WEIGHT, SLOPE},
   exponential_adstock_static_dim |-> {LAG_WEIGHT, SLOPE},
   exponential_adstock_static_decay |-> {LAG_WEIGHT, SLOPE},
   exponential_adstock_static_dim_decay |-> {LAG_WEIGHT, SLOPE}]

\* ------------------------------------------------------------ priors
\* A distribution object: its family and its two hyper-parameters.
Dist(family, a, b) == [family |-> family, a |-> a, b |-> b]

\* The object a caller put into custom_priors under the given name.
UserPrior(name) == Dist("custom_priors[" \o name \o "]", 0, 0)

\* No distribution (a deterministic site, a literal argument).
NoPrior == Dist("none", 0, 0)

\* dist.Normal(loc=media_prior, scale=media_sigma)
MediaNormal == Dist("Normal(media_prior, media_sigma)", 0, 0)

\* dist.Normal(loc=mu, scale=sigma)
TargetNormal == Dist("Normal(mu, sigma)", 0, 0)

get_default_priors ==
  [intercept |-> Dist("HalfNormal", 2, 0),
   coef_trend |-> Dist("Normal", 0, 1),
   sigma |-> Dist("Gamma", 1, 1),
   coef_extra_features |-> Dist("Normal", 0, 1)]

get_transform_default_priors ==
  [carryover |->
     [ad_effect_retention_rate |-> Dist("Beta", 1, 1),
      peak_effect_delay |-> Dist("HalfNormal", 2, 0),
      exponent |-> Dist("Beta", 9, 1)],
   adstock |->
     [exponent |-> Dist("Beta", 9, 1),
      lag_weight |-> Dist("Beta", 2, 1)],
   hill_adstock |->
     [lag_weight |-> Dist("Beta", 2, 1),
      half_max_effective_concentration |-> Dist("Gamma", 1, 1),
      slope |-> Dist("Gamma", 1, 1)],
   exponential_adstock |->
     [lag_weight |-> Dist("Beta", 2, 1),
      slope |-> Dist("Gamma", 1, 1)],
   exponential_adstock_static_dim |->
     [lag_weight |-> Dist("Beta", 2, 1)],
   exponential_adstock_static_decay |->
     [slope |-> Dist("Gamma", 1, 1)],
   exponential_adstock_static_dim_decay |-> <<>>]

\* The names a transform function can be recognised by.
TransformNames == DOMAIN get_transform_default_priors

\* An object that is none of the seven transform functions of the module
\* and cannot be called (a str, None).
UnknownTransform == "unknown"

\* A callable that is none of the seven transform functions of the module:
\* it takes (media_data, custom_priors, **kwargs), declares no site and
\* returns a tensor of the shape of media_data.
OtherCallable == "other_callable"

\* dict.get(key, default)
Get(d, key, default) == IF key \in DOMAIN d THEN d[key] ELSE default

\* ------------------------------------------------------------ shapes
\* jnp.expand_dims(x, axis=-1), on the shape of x
expand_dims(shape) == Append(shape, 1)

\* A plate: numpyro.plate(name, size, dim)
Plate(name, size, dim) == [name |-> name, size |-> size, dim |-> dim]

\* A declared site.
Site(name, type, plates, fn) ==
  [name |-> name, type |-> type, plates |-> plates, fn |-> fn]

\* An argument handed to a primitive: where its value comes from ("site":
\* the value sampled at the site of that name, "literal": the number num,
\* "custom": the object found in custom_priors) and its shape.
Arg(name, origin, fn, num, shape) ==
  [name |-> name, origin |-> origin, fn |-> fn, num |-> num, shape |-> shape]

\* One call of a primitive of media_transforms: the data it is applied to
\* ("media_data" or the name of the primitive whose result it is), its
\* parameters, and its configuration (normalise or number_lags; 0 if none).
Call(primitive, data, params, normalise, number_lags) ==
  [primitive |-> primitive, data |-> data, params |-> params,
   normalise |-> normalise, number_lags |-> number_lags]

\* with numpyro.plate(name=f"{name}_plate", size=media_data.shape[1]):
\*   numpyro.sample(name=name, fn=custom_priors.get(name, default[name]))
sample_channel_param(name, media_shape, custom_priors, transform_default_priors) ==
  Site(name, "sample",
       <<Plate(name \o "_plate", media_shape[2], -1)>>,
       Get(custom_priors, name, transform_default_priors[name]))

\* The value of a parameter sampled under a plate of the channel size, with
\* the trailing axis it gets when media_data.ndim == 3.
sampled_arg(name, media_shape, expand) ==
  Arg(name, "site", NoPrior, 0,
      IF expand /\ Len(media_shape) = 3
        THEN expand_dims(<<media_shape[2]>>) ELSE <<media_shape[2]>>)

\* value = custom_priors.get(name, 1), with the trailing axis it gets when
\* media_data.ndim == 3.
pinned_arg(name, media_shape, custom_priors) ==
  LET shape == IF Len(media_shape) = 3 THEN expand_dims(<<>>) ELSE <<>>
  IN IF name \in DOMAIN custom_priors
       THEN Arg(name, "custom", custom_priors[name], 0, shape)
       ELSE Arg(name, "literal", NoPrior, 1, shape)

\* ------------------------------------------------------------ transforms
\* What a transform function does: the sites it declares, in order, and
\* the primitive calls it makes, innermost first.
Transformed(sites, calls) == [sites |-> sites, calls |-> calls]

\* transform_adstock with exponent left as sampled in geo mode.
transform_adstock_flat_exponent(media_shape, custom_priors, normalise) ==
  LET transform_default_priors == get_transform_default_priors["adstock"]
  IN Transformed(
       <<sample_channel_param(LAG_WEIGHT, media_shape, custom_priors,
                              transform_default_priors),
         sample_channel_param(EXPONENT, media_shape, custom_priors,
                              transform_default_priors)>>,
       <<Call("adstock", "media_data",
              <<sampled_arg(LAG_WEIGHT, media_shape, TRUE)>>, normalise, 0),
         Call("apply_exponent_safe", "adstock",
              <<sampled_arg(EXPONENT, media_shape, FALSE)>>, FALSE, 0)>>)

transform_adstock(media_shape, custom_priors, normalise) ==
  LET transform_default_priors == get_transform_default_priors["adstock"]
  IN Transformed(
       <<sample_channel_param(LAG_WEIGHT, media_shape, custom_priors,
                              transform_default_priors),
         sample_channel_param(EXPONENT, media_shape, custom_priors,
                              transform_default_priors)>>,
       <<Call("adstock", "media_data",
              <<sampled_arg(LAG_WEIGHT, media_shape, TRUE)>>, normalise, 0),
         Call("apply_exponent_safe", "adstock",
              <<sampled_arg(EXPONENT, media_shape, TRUE)>>, FALSE, 0)>>)

\* transform_hill_adstock with slope left as sampled in geo mode.
transform_hill_adstock_flat_slope(media_shape, custom_priors, normalise) ==
  LET transform_default_priors == get_transform_default_priors["hill_adstock"]
  IN Transformed(
       <<sample_channel_param(LAG_WEIGHT, media_shape, custom_priors,
                              transform_default_priors),
         sample_channel_param(HALF_MAX_EFFECTIVE_CONCENTRATION, media_shape,
                              custom_priors, transform_default_priors),
         sample_channel_param(SLOPE, media_shape, custom_priors,
                              transform_default_priors)>>,
       <<Call("adstock", "media_data",
              <<sampled_arg(LAG_WEIGHT, media_shape, TRUE)>>, normalise, 0),
         Call("hill", "adstock",
              <<sampled_arg(HALF_MAX_EFFECTIVE_CONCENTRATION, media_shape, TRUE),
                sampled_arg(SLOPE, media_shape, FALSE)>>, FALSE, 0)>>)

transform_hill_adstock(media_shape, custom_priors, normalise) ==
  LET transform_default_priors == get_transform_default_priors["hill_adstock"]
  IN Transformed(
       <<sample_channel_param(LAG_WEIGHT, media_shape, custom_priors,
                              transform_default_priors),
         sample_channel_param(HALF_MAX_EFFECTIVE_CONCENTRATION, media_shape,
                              custom_priors, transform_default_priors),
         sample_channel_param(SLOPE, media_shape, custom_priors,
                              transform_default_priors)>>,
       <<Call("adstock", "media_data",
              <<sampled_arg(LAG_WEIGHT, media_shape, TRUE)>>, normalise, 0),
         Call("hill", "adstock",
              <<sampled_arg(HALF_MAX_EFFECTIVE_CONCENTRATION, media_shape, TRUE),
                sampled_arg(SLOPE, media_shape, TRUE)>>, FALSE, 0)>>)

transform_exponential_adstock(media_shape, custom_priors, normalise) ==
  LET transform_default_priors ==
        get_transform_default_priors["exponential_adstock"]
  IN Transformed(
       <<sample_channel_param(LAG_WEIGHT, media_shape, custom_priors,
                              transform_default_priors),
         sample_channel_param(SLOPE, media_shape, custom_priors,
                              transform_default_priors)>>,
       <<Call("adstock", "media_data",
              <<sampled_arg(LAG_WEIGHT, media_shape, TRUE)>>, normalise, 0),
         Call("exponential", "adstock",
              <<sampled_arg(SLOPE, media_shape, TRUE)>>, FALSE, 0)>>)

\* static_dim pinning lag_weight and sampling slope, as static_decay does.
transform_exponential_adstock_static_dim_as_decay(media_shape, custom_priors, normalise) ==
  LET transform_default_priors ==
        get_transform_default_priors["exponential_adstock_static_decay"]
  IN Transformed(
       <<sample_channel_param(SLOPE, media_shape, custom_priors,
                              transform_default_priors)>>,
       <<Call("adstock", "media_data",
              <<pinned_arg(LAG_WEIGHT, media_shape, custom_priors)>>,
              normalise, 0),
         Call("exponential", "adstock",
              <<sampled_arg(SLOPE, media_shape, TRUE)>>, FALSE, 0)>>)

transform_exponential_adstock_static_dim(media_shape, custom_priors, normalise) ==
  LET transform_default_priors ==
        get_transform_default_priors["exponential_adstock_static_dim"]
  IN Transformed(
       <<sample_channel_param(LAG_WEIGHT, media_shape, custom_priors,
                              transform_default_priors)>>,
       <<Call("adstock", "media_data",
              <<sampled_arg(LAG_WEIGHT, media_shape, TRUE)>>, normalise, 0),
         Call("exponential", "adstock",
              <<pinned_arg(SLOPE, media_shape, custom_priors)>>, FALSE, 0)>>)

transform_exponential_adstock_static_decay(media_shape, custom_priors, normalise) ==
  LET transform_default_priors ==
        get_transform_default_priors["exponential_adstock_static_decay"]
  IN Transformed(
       <<sample_channel_param(SLOPE, media_shape, custom_priors,
                              transform_default_priors)>>,
       <<Call("adstock", "media_data",
              <<pinned_arg(LAG_WEIGHT, media_shape, custom_priors)>>,
              normalise, 0),
         Call("exponential", "adstock",
              <<sampled_arg(SLOPE, media_shape, TRUE)>>, FALSE, 0)>>)

\* static_dim_decay sampling lag_weight, as static_dim does.
transform_exponential_adstock_static_dim_decay_sampling(media_shape, custom_priors, normalise) ==
  LET transform_default_priors ==
        get_transform_default_priors["exponential_adstock_static_dim"]
  IN Transformed(
       <<sample_channel_param(LAG_WEIGHT, media_shape, custom_priors,
                              transform_default_priors)>>,
       <<Call("adstock", "media_data",
              <<sampled_arg(LAG_WEIGHT, media_shape, TRUE)>>, normalise, 0),
         Call("exponential", "adstock",
              <<pinned_arg(SLOPE, media_shape, custom_priors)>>, FALSE, 0)>>)

transform_exponential_adstock_static_dim_decay(media_shape, custom_priors, normalise) ==
  Transformed(
    <<>>,
    <<Call("adstock", "media_data",
           <<pinned_arg(LAG_WEIGHT, media_shape, custom_priors)>>,
           normalise, 0),
      Call("exponential", "adstock",
           <<pinned_arg(SLOPE, media_shape, custom_priors)>>, FALSE, 0)>>)

transform_carryover(media_shape, custom_priors, number_lags) ==
  LET transform_default_priors == get_transform_default_priors["carryover"]
  IN Transformed(
       <<sample_channel_param(AD_EFFECT_RETENTION_RATE, media_shape,
                              custom_priors, transform_default_priors),
         sample_channel_param(PEAK_EFFECT_DELAY, media_shape, custom_priors,
                              transform_default_priors),
         sample_channel_param(EXPONENT, media_shape, custom_priors,
                              transform_default_priors)>>,
       <<Call("carryover", "media_data",
              <<sampled_arg(AD_EFFECT_RETENTION_RATE, media_shape, FALSE),
                sampled_arg(PEAK_EFFECT_DELAY, media_shape, FALSE)>>,
              FALSE, number_lags),
         Call("apply_exponent_safe", "carryover",
              <<sampled_arg(EXPONENT, media_shape, TRUE)>>, FALSE, 0)>>)

\* ------------------------------------------------------------ tensors
\* The index tuples of a tensor of the given shape (1-based).
RECURSIVE Indices(_)
Indices(shape) ==
  IF shape = <<>> THEN {<<>>}
  ELSE {Append(i, k) : i \in Indices(SubSeq(shape, 1, Len(shape) - 1)),
                       k \in 1..shape[Len(shape)]}

\* A tensor: its shape and its entries.
Tensor(shape, f) == [shape |-> shape, val |-> [i \in Indices(shape) |-> f[i]]]

\* A local variable that has no value yet.
NoTensor == [shape |-> <<0>>, val |-> <<>>]

RECURSIVE SumTo(_, _)
SumTo(n, f) == IF n = 0 THEN 0 ELSE f[n] + SumTo(n - 1, f)

\* The shape a sample site gets from the plates around it: the size of each
\* plate at its dim, counted from the right.
PlateShape(plates) ==
  LET rank == IF plates = <<>> THEN 0
              ELSE CHOOSE r \in {-plates[i].dim : i \in 1..Len(plates)} :
                     \A i \in 1..Len(plates) : -plates[i].dim <= r
  IN [k \in 1..rank |->
        IF \E i \in 1..Len(plates) : plates[i].dim = k - rank - 1
          THEN (CHOOSE q \in {plates[i] : i \in 1..Len(plates)} :
                  q.dim = k - rank - 1).size
          ELSE 1]

\* The value drawn at a sample site, in halves: one of a family of tensors
\* told apart by the seed; its entries differ along every axis.
Drawn(name, seed, shape) ==
  LET base == CASE name = INTERCEPT -> 4
                [] name = SIGMA -> 2
                [] name = "channel_coef_media" -> 1
                [] name = "coef_media" -> 3
                [] OTHER -> 2
  IN Tensor(shape,
            [i \in Indices(shape) |-> base + seed * Len(shape)
                       + (IF Len(i) >= 1 THEN (1 + seed) * (i[1] - 1) ELSE 0)
                       + (IF Len(i) >= 2 THEN 5 * (i[2] - 1) ELSE 0)])

\* The result of the primitives on media_data: a tensor of the shape of
\* media_data, one of a family told apart by the seed.
PrimitiveResult(seed, media_shape) ==
  Tensor(media_shape,
         [i \in Indices(media_shape) |-> i[1]
                    + (IF Len(i) >= 2 THEN seed * (i[2] - 1) ELSE 0)
                    + (IF Len(i) >= 3 THEN 2 * seed * (i[3] - 1) ELSE 0)])

\* The extra features handed to the model: a tensor of the given shape.
ExtraFeatureData(shape) ==
  Tensor(shape,
         [i \in Indices(shape) |-> i[1] + (IF Len(i) >= 2 THEN i[2] - 1 ELSE 0)])

\* jnp.einsum("tc, c -> t", a, b): defined for a of rank 2 and b of rank 1
\* that agree on the channel axis.
einsum_ok(subscripts, a, b) ==
  CASE subscripts = "tc, c -> t" ->
         /\ Len(a.shape) = 2 /\ Len(b.shape) = 1 /\ a.shape[2] = b.shape[1]
    [] subscripts = "tf, f -> t" ->
         /\ Len(a.shape) = 2 /\ Len(b.shape) = 1 /\ a.shape[2] = b.shape[1]
    [] subscripts = "tfg, fg -> tg" ->
         /\ Len(a.shape) = 3 /\ Len(b.shape) = 2
         /\ a.shape[2] = b.shape[1] /\ a.shape[3] = b.shape[2]
    [] OTHER -> FALSE

einsum(subscripts, a, b) ==
  IF subscripts = "tfg, fg -> tg"
    THEN Tensor(<<a.shape[1], a.shape[3]>>,
                [i \in Indices(<<a.shape[1], a.shape[3]>>) |->
                   SumTo(a.shape[2],
                         [f \in 1..a.shape[2] |->
                            a.val[<<i[1], f, i[2]>>] * b.val[<<f, i[2]>>]])])
    ELSE Tensor(<<a.shape[1]>>,
                [i \in Indices(<<a.shape[1]>>) |->
                   SumTo(a.shape[2],
                         [c \in 1..a.shape[2] |->
                            a.val[<<i[1], c>>] * b.val[<<c>>]])])

\* a + b for b of rank 1 and a of shape (1,) or of the shape of b.
broadcast_add(a, b) ==
  Tensor(b.shape,
         [i \in Indices(b.shape) |->
            (IF a.shape = <<1>> THEN a.val[<<1>>] ELSE a.val[i]) + b.val[i]])

\* ------------------------------------------------------------ state
VARIABLES
  media_shape,         \* media_data.shape
  transform_function,  \* the transform function handed to the model
  custom_priors,       \* custom_priors: name -> object
  transform_kwargs,    \* transform_kwargs, once it has been read
  extra_features,      \* extra_features, once it has been read
  seed,                \* what tells the drawn values of this run apart
  pc,                  \* the statement media_mix_model is about to execute
  error,               \* the exception that ended the declaration, or "none"
  sites,               \* the sites declared so far, in order
  calls,               \* the primitive calls of the transform function
  contraction,         \* the arguments of the channel contraction
  coef_extra_features, \* the value sampled at coef_extra_features, if any
  intercept, sigma, coef_media, media_transformed, prediction, mu

vars == <<media_shape, transform_function, custom_priors, transform_kwargs,
          extra_features, seed, pc, error, sites, calls, contraction,
          coef_extra_features, intercept, sigma, coef_media, media_transformed,
          prediction, mu>>

inputs == <<media_shape, transform_function, custom_priors>>
locals == <<intercept, sigma, coef_media, media_transformed, prediction, mu>>

\* media_data.ndim
ndim == Len(media_shape)
\* n_channels = media_data.shape[1]
n_channels == media_shape[2]
\* geo_shape = (media_data.shape[2],) if media_data.ndim == 3 else ()
geo_shape == IF ndim = 3 THEN <<media_shape[3]>> ELSE <<>>
\* n_geos = media_data.shape[2] if media_data.ndim == 3 else 1
n_geos == IF ndim = 3 THEN media_shape[3] ELSE 1

\* The shapes media_data is drawn from.  Ranks up to 3: the shortest and
\* the longest time and geo axes, one, two and the most channels.  Ranks
\* above 3: the shortest axes together and the longest axes together; the
\* axes after the third are as long as the third.
MediaShapes ==
  {[k \in 1..r |-> CASE k = 1 -> t [] k = 2 -> c [] OTHER -> g] :
     r \in 1..3, t \in {1, MaxT}, c \in {1, 2, MaxC}, g \in {1, MaxG}}
  \cup {[k \in 1..r |-> 1] : r \in 4..MaxRank}
  \cup {[k \in 1..r |-> CASE k = 1 -> MaxT [] k = 2 -> MaxC [] OTHER -> MaxG] :
          r \in 4..MaxRank}

CustomNames ==
  MODEL_PRIORS_NAMES \cup UNION {TRANSFORM_PRIORS_NAMES[n] : n \in TransformNames}

\* The custom_priors mappings the model is declared with.
CustomPriorMaps ==
  {[name \in keys |-> UserPrior(name)] :
     keys \in {ks \in SUBSET CustomNames : Cardinality(ks) <= MaxOverrides}}

\* number_lags: int = 13
DefaultNumberLags == 13

NoKwargs == [key |-> "None", normalise |-> FALSE, number_lags |-> 0]
unread == [key |-> "unread", normalise |-> FALSE, number_lags |-> 0]
KwargsSet ==
  {NoKwargs,
   [key |-> "normalise", normalise |-> TRUE, number_lags |-> 0],
   [key |-> "normalise", normalise |-> FALSE, number_lags |-> 0],
   [key |-> "number_lags", normalise |-> FALSE,
    number_lags |-> DefaultNumberLags - 1]}

NoExtraFeatures == [given |-> FALSE, shape |-> <<>>]
ExtraFeaturesSet ==
  {NoExtraFeatures}
  \cup {[given |-> TRUE, shape |-> <<media_shape[1], f>>] : f \in 1..MaxFeatures}
  \cup {[given |-> TRUE, shape |-> <<media_shape[1], f, g>>] :
          f \in 1..MaxFeatures, g \in {1, MaxG}}

NoContraction == [subscripts |-> "", media |-> NoTensor, coef |-> NoTensor]

Init ==
  /\ media_shape \in MediaShapes
  /\ transform_function \in TransformNames \cup {UnknownTransform, OtherCallable}
  /\ custom_priors \in CustomPriorMaps
  /\ transform_kwargs = unread
  /\ extra_features = NoExtraFeatures
  /\ seed = 0
  /\ pc = "shapes"
  /\ error = "none"
  /\ sites = <<>>
  /\ calls = <<>>
  /\ contraction = NoContraction
  /\ coef_extra_features = NoTensor
  /\ intercept = NoTensor
  /\ sigma = NoTensor
  /\ coef_media = NoTensor
  /\ media_transformed = NoTensor
  /\ prediction = NoTensor
  /\ mu = NoTensor

\* The declaration ends with an exception.
Raise(e) == pc' = "failed" /\ error' = e

\* ------------------------------------------------------------ media_mix_model
\* default_priors, data_size, n_channels, geo_shape, n_geos: reading
\* media_data.shape[1] of a tensor of rank below 2 raises.
read_shapes ==
  /\ pc = "shapes"
  /\ IF ndim < 2
       THEN Raise("IndexError") /\ UNCHANGED seed
       ELSE pc' = "intercept" /\ seed' \in 0..MaxSeed /\ UNCHANGED error
  /\ UNCHANGED <<inputs, transform_kwargs, extra_features,
                 coef_extra_features, sites, calls,
                 contraction, locals>>

\* intercept resolved under the name of the trend coefficient.
intercept_site_trend_key(priors, geos) ==
  Site(INTERCEPT, "sample", <<Plate("intercept_plate", geos, -1)>>,
       Get(priors, COEF_TREND, get_default_priors[INTERCEPT]))

intercept_site(priors, geos) ==
  Site(INTERCEPT, "sample", <<Plate("intercept_plate", geos, -1)>>,
       Get(priors, INTERCEPT, get_default_priors[INTERCEPT]))

sample_intercept ==
  /\ pc = "intercept"
  /\ sites' = Append(sites, intercept_site(custom_priors, n_geos))
  /\ intercept' = Drawn(INTERCEPT, seed, <<n_geos>>)
  /\ pc' = "sigma"
  /\ UNCHANGED <<inputs, transform_kwargs, extra_features,
                 coef_extra_features, seed, error, calls,
                 contraction, sigma, coef_media, media_transformed,
                 prediction, mu>>

\* sigma always drawn from the catalog default.
sigma_site_default_only(priors, geos) ==
  Site(SIGMA, "sample", <<Plate("sigma_plate", geos, -1)>>,
       get_default_priors[SIGMA])

sigma_site(priors, geos) ==
  Site(SIGMA, "sample", <<Plate("sigma_plate", geos, -1)>>,
       Get(priors, SIGMA, get_default_priors[SIGMA]))

sample_sigma ==
  /\ pc = "sigma"
  /\ sites' = Append(sites, sigma_site(custom_priors, n_geos))
  /\ sigma' = Drawn(SIGMA, seed, <<n_geos>>)
  /\ pc' = "coef_media"
  /\ UNCHANGED <<inputs, transform_kwargs, extra_features,
                 coef_extra_features, seed, error, calls,
                 contraction, intercept, coef_media, media_transformed,
                 prediction, mu>>

\* The media coefficient sampled under the channel plate alone.
coef_media_sites_channel_only(rank, channels, geos) ==
  IF rank = 3
    THEN <<Site("coef_media", "sample",
                <<Plate("channel_media_plate", channels, -2)>>, MediaNormal)>>
    ELSE <<Site("coef_media", "sample",
                <<Plate("channel_media_plate", channels, -1)>>, MediaNormal)>>

\* The sites of the media coefficient, in order; the local coef_media ends
\* up holding the value of the last one.
coef_media_sites(rank, channels, geos) ==
  IF rank = 3
    THEN <<Site("channel_coef_media", "sample",
                <<Plate("channel_media_plate", channels, -2)>>, MediaNormal),
           Site("coef_media", "sample",
                <<Plate("channel_media_plate", channels, -2),
                  Plate("geo_media_plate", geos, -1)>>, MediaNormal)>>
    ELSE <<Site("coef_media", "sample",
                <<Plate("channel_media_plate", channels, -1)>>, MediaNormal)>>

sample_coef_media ==
  /\ pc = "coef_media"
  /\ LET declared == coef_media_sites(ndim, n_channels, n_geos)
         last == declared[Len(declared)]
     IN /\ sites' = sites \o declared
        /\ coef_media' = Drawn(last.name, seed, PlateShape(last.plates))
  /\ pc' = "transform"
  /\ UNCHANGED <<inputs, transform_kwargs, extra_features,
                 coef_extra_features, seed, error, calls,
                 contraction, intercept, sigma, media_transformed,
                 prediction, mu>>

\* media_transformed = numpyro.deterministic("media_transformed",
\*     transform_function(media_data, custom_priors, **transform_kwargs))
\* for a transform function that takes the keyword `keyword`.
call_transform(keyword, result) ==
  /\ pc = "transform"
  /\ \E kwargs \in KwargsSet :
       /\ transform_kwargs' = kwargs
       /\ IF kwargs.key \notin {"None", keyword}
            THEN /\ Raise("TypeError")
                 /\ UNCHANGED <<sites, calls, media_transformed>>
            ELSE /\ sites' = sites \o result[kwargs].sites
                               \o <<Site("media_transformed", "deterministic",
                                         <<>>, NoPrior)>>
                 /\ calls' = result[kwargs].calls
                 /\ media_transformed' = PrimitiveResult(seed, media_shape)
                 /\ pc' = "predict"
                 /\ UNCHANGED error
  /\ UNCHANGED <<inputs, extra_features,
                 coef_extra_features, seed, contraction, intercept, sigma,
                 coef_media, prediction, mu>>

\* normalise: bool = True
normalise_or(kwargs, default) ==
  IF kwargs.key = "normalise" THEN kwargs.normalise ELSE default

\* number_lags: int = 13
number_lags_or(kwargs, default) ==
  IF kwargs.key = "number_lags" THEN kwargs.number_lags ELSE default

call_transform_adstock ==
  /\ transform_function = "adstock"
  /\ call_transform("normalise",
       [kw \in KwargsSet |->
          transform_adstock(media_shape, custom_priors,
                                     normalise_or(kw, TRUE))])

call_transform_hill_adstock ==
  /\ transform_function = "hill_adstock"
  /\ call_transform("normalise",
       [kw \in KwargsSet |->
          transform_hill_adstock(media_shape, custom_priors,
                                          normalise_or(kw, TRUE))])

call_transform_exponential_adstock ==
  /\ transform_function = "exponential_adstock"
  /\ call_transform("normalise",
       [kw \in KwargsSet |->
          transform_exponential_adstock(media_shape, custom_priors,
                                                 normalise_or(kw, FALSE))])

call_transform_exponential_adstock_static_dim ==
  /\ transform_function = "exponential_adstock_static_dim"
  /\ call_transform("normalise",
       [kw \in KwargsSet |->
          transform_exponential_adstock_static_dim(
                     media_shape, custom_priors, normalise_or(kw, FALSE))])

call_transform_exponential_adstock_static_decay ==
  /\ transform_function = "exponential_adstock_static_decay"
  /\ call_transform("normalise",
       [kw \in KwargsSet |->
          transform_exponential_adstock_static_decay(
                     media_shape, custom_priors, normalise_or(kw, FALSE))])

call_transform_exponential_adstock_static_dim_decay ==
  /\ transform_function = "exponential_adstock_static_dim_decay"
  /\ call_transform("normalise",
       [kw \in KwargsSet |->
          transform_exponential_adstock_static_dim_decay(
                     media_shape, custom_priors, normalise_or(kw, FALSE))])

call_transform_carryover ==
  /\ transform_function = "carryover"
  /\ call_transform("number_lags",
       [kw \in KwargsSet |->
          transform_carryover(media_shape, custom_priors,
                                       number_lags_or(kw, DefaultNumberLags))])

\* media_mix_model does not look at transform_function before calling it:
\* an object that cannot be called raises TypeError at the call, and the
\* sites declared before the call stay declared.
call_transform_unknown ==
  /\ pc = "transform"
  /\ transform_function = UnknownTransform
  /\ Raise("TypeError")
  /\ \E kwargs \in KwargsSet : transform_kwargs' = kwargs
  /\ UNCHANGED <<inputs, extra_features,
                 coef_extra_features, seed, sites, calls, contraction,
                 locals>>

\* A callable outside the seven is called like any other: it gets every
\* keyword of transform_kwargs, whatever its name, and what it returns is
\* registered as media_transformed.
call_transform_other ==
  /\ pc = "transform"
  /\ transform_function = OtherCallable
  /\ \E kwargs \in KwargsSet : transform_kwargs' = kwargs
  /\ sites' = Append(sites, Site("media_transformed", "deterministic",
                                 <<>>, NoPrior))
  /\ media_transformed' = PrimitiveResult(seed, media_shape)
  /\ pc' = "predict"
  /\ UNCHANGED <<inputs, extra_features, coef_extra_features, seed, error,
                 calls, contraction, intercept, sigma, coef_media,
                 prediction, mu>>

\* media_einsum = "tc, c -> t"
\* prediction = intercept + jnp.einsum(media_einsum, media_transformed, coef_media)
media_einsum == "tc, c -> t"

\* The contraction alone, the intercept left out.
base_prediction_without_intercept(intercept_value, transformed, coef) ==
  einsum(media_einsum, transformed, coef)

base_prediction(intercept_value, transformed, coef) ==
  broadcast_add(intercept_value, einsum(media_einsum, transformed, coef))

predict ==
  /\ pc = "predict"
  /\ contraction' = [subscripts |-> media_einsum, media |-> media_transformed,
                     coef |-> coef_media]
  /\ IF einsum_ok(media_einsum, media_transformed, coef_media)
       THEN /\ prediction' = base_prediction(intercept, media_transformed,
                                              coef_media)
            /\ pc' = "extra_features"
            /\ UNCHANGED error
       ELSE Raise("ValueError") /\ UNCHANGED prediction
  /\ UNCHANGED <<inputs, transform_kwargs, extra_features,
                 coef_extra_features, seed, sites, calls,
                 intercept, sigma, coef_media, media_transformed, mu>>

\* numpyro.plate_stack(prefix, sizes): one plate per size, the rightmost at
\* dim -1, named prefix_0, prefix_1, ... from the right.
plate_stack(prefix, sizes) ==
  [i \in 1..Len(sizes) |->
     Plate(prefix \o (IF i = 1 THEN "_0" ELSE "_1"),
           sizes[Len(sizes) + 1 - i], -i)]

\* plate_prefixes, extra_features_einsum, extra_features_plates_shape and
\* the coef_extra_features site, for extra features of the given shape.
extra_features_plan(shape, geo, priors) ==
  LET rank3 == Len(shape) = 3
      prefixes == IF rank3 THEN "('extra_feature', 'geo')"
                           ELSE "('extra_feature',)"
      plates_shape == IF rank3 THEN <<shape[2]>> \o geo ELSE <<shape[2]>>
  IN [einsum |-> IF rank3 THEN "tfg, fg -> tg" ELSE "tf, f -> t",
      site |-> Site(COEF_EXTRA_FEATURES, "sample",
                    plate_stack(prefixes, plates_shape),
                    Get(priors, COEF_EXTRA_FEATURES,
                        get_default_priors[COEF_EXTRA_FEATURES]))]

add_extra_features ==
  /\ pc = "extra_features"
  /\ \E given \in ExtraFeaturesSet :
       /\ extra_features' = given
       /\ IF ~given.given
            THEN /\ pc' = "mu"
                 /\ UNCHANGED <<sites, prediction, error, coef_extra_features>>
            ELSE LET plan == extra_features_plan(given.shape, geo_shape,
                                                 custom_priors)
                     data == ExtraFeatureData(given.shape)
                     drawn ==
                       Drawn(COEF_EXTRA_FEATURES, seed,
                             PlateShape(plan.site.plates))
                 IN /\ sites' = Append(sites, plan.site)
                    /\ coef_extra_features' = drawn
                    /\ IF einsum_ok(plan.einsum, data, drawn)
                         THEN /\ prediction' = broadcast_add(
                                   prediction,
                                   einsum(plan.einsum, data, drawn))
                              /\ pc' = "mu"
                              /\ UNCHANGED error
                         ELSE Raise("ValueError") /\ UNCHANGED prediction
  /\ UNCHANGED <<inputs, transform_kwargs, seed, calls, contraction, intercept,
                 sigma, coef_media, media_transformed, mu>>

\* mu = numpyro.deterministic(name="mu", value=prediction)
register_mu ==
  /\ pc = "mu"
  /\ sites' = Append(sites, Site("mu", "deterministic", <<>>, NoPrior))
  /\ mu' = prediction
  /\ pc' = "target"
  /\ UNCHANGED <<inputs, transform_kwargs, extra_features,
                 coef_extra_features, seed, error, calls,
                 contraction, intercept, sigma, coef_media, media_transformed,
                 prediction>>

\* numpyro.sample("target", Normal(loc=mu, scale=sigma), obs=target_data)
observe_target ==
  /\ pc = "target"
  /\ sites' = Append(sites, Site("target", "observed", <<>>, TargetNormal))
  /\ pc' = "done"
  /\ UNCHANGED <<inputs, transform_kwargs, extra_features,
                 coef_extra_features, seed, error, calls,
                 contraction, locals>>

Next ==
  \/ read_shapes
  \/ sample_intercept
  \/ sample_sigma
  \/ sample_coef_media
  \/ call_transform_adstock
  \/ call_transform_hill_adstock
  \/ call_transform_exponential_adstock
  \/ call_transform_exponential_adstock_static_dim
  \/ call_transform_exponential_adstock_static_decay
  \/ call_transform_exponential_adstock_static_dim_decay
  \/ call_transform_carryover
  \/ call_transform_unknown
  \/ call_transform_other
  \/ predict
  \/ add_extra_features
  \/ register_mu
  \/ observe_target

Spec == Init /\ [][Next]_vars

\* ------------------------------------------------------------ claims
RECURSIVE SetSum(_, _)
SetSum(S, f) ==
  IF S = {} THEN 0
  ELSE LET x == CHOOSE y \in S : TRUE IN f[x] + SetSum(S \ {x}, f)

Channels == 1..media_shape[2]
Times == 1..media_shape[1]

\* The declaration has gone through the channel contraction.
Contracted == contraction # NoContraction

\* C1: in geo mode (media of shape [T, C, G]) the prediction registered as
\* mu is prediction[t,g] = intercept[g] + sum over c of
\* transformedMedia[t,c,g] * coef_media[c,g], of shape [T, G]: the
\* contraction succeeds and, once the declaration is over, mu holds it.
GeoPrediction ==
  Tensor(<<media_shape[1], media_shape[3]>>,
         [i \in Indices(<<media_shape[1], media_shape[3]>>) |->
            intercept.val[<<i[2]>>]
                    + SetSum(Channels,
                             [c \in Channels |->
                                media_transformed.val[<<i[1], c, i[2]>>]
                                * coef_media.val[<<c, i[2]>>]])])

C1_GeoMu ==
  (ndim = 3 /\ Contracted) =>
     /\ error = "none"
     /\ prediction = GeoPrediction
     /\ (pc = "done" => mu = GeoPrediction)

\* C2: in national mode (media of shape [T, C]) without extra features,
\* the registered mu is mu[t] = intercept + sum over c of
\* transformedMedia[t,c] * coef_media[c]; intercept 2.0, one channel with
\* coefficient 1.5 and transformed media [1,2,3] give [3.5, 5.0, 6.5]
\* (stored in halves: 4, 3 and [7, 10, 13]).
MuRegistered == \E i \in 1..Len(sites) : sites[i].name = "mu"

IsExample ==
  /\ media_shape = <<3, 1>>
  /\ intercept.val[<<1>>] = 4
  /\ coef_media.val[<<1>>] = 3
  /\ \A t \in 1..3 : media_transformed.val[<<t, 1>>] = t

C2_NationalMu ==
  (ndim = 2 /\ MuRegistered /\ ~extra_features.given) =>
     /\ mu.shape = <<media_shape[1]>>
     /\ \A t \in Times :
          mu.val[<<t>>] =
            intercept.val[<<1>>]
            + SetSum(Channels,
                     [c \in Channels |->
                        media_transformed.val[<<t, c>>] * coef_media.val[<<c>>]])
     /\ (IsExample =>
           mu.val[<<1>>] = 7 /\ mu.val[<<2>>] = 10 /\ mu.val[<<3>>] = 13)

C2_Witness ==
  /\ pc = "done" /\ ndim = 2 /\ ~extra_features.given /\ IsExample
  /\ mu.val[<<1>>] = 7 /\ mu.val[<<2>>] = 10 /\ mu.val[<<3>>] = 13

\* C3: when the transform is none of the seven recognised ones, the
\* declaration fails before any random variable is sampled: it never
\* completes, and at the moment of failure no site has been declared.
C3_UnknownTransformFailsFirst ==
  transform_function \notin TransformNames =>
     /\ pc # "done"
     /\ pc = "failed" => sites = <<>>

\* The transform function has returned.
TransformReturned == calls # <<>>

\* The pinned parameters of the static variants: slope for static_dim,
\* lag_weight for static_decay, both for static_dim_decay.
StaticVariants ==
  {"exponential_adstock_static_dim", "exponential_adstock_static_decay",
   "exponential_adstock_static_dim_decay"}

PinnedNames ==
  CASE transform_function = "exponential_adstock_static_dim" -> {SLOPE}
    [] transform_function = "exponential_adstock_static_decay" -> {LAG_WEIGHT}
    [] transform_function = "exponential_adstock_static_dim_decay" ->
         {LAG_WEIGHT, SLOPE}
    [] OTHER -> {}

ConstantOne(name) ==
  Arg(name, "literal", NoPrior, 1, IF ndim = 3 THEN <<1>> ELSE <<>>)

ExponentialAdstockPinnedToOne ==
  LET ref == transform_exponential_adstock(
               media_shape, custom_priors, normalise_or(transform_kwargs, FALSE))
  IN [k \in 1..Len(ref.calls) |->
        [ref.calls[k] EXCEPT !.params =
           [j \in 1..Len(@) |->
              IF @[j].name \in PinnedNames THEN ConstantOne(@[j].name)
              ELSE @[j]]]]

\* C4 as claimed: in the three static variants, for every media tensor and
\* every custom_priors, the pinned parameters are the plain constant 1 and
\* are never sampled, and the calls made are those of exponential_adstock
\* with the pinned arguments equal to 1.
C4_PinnedAreConstantOne ==
  (transform_function \in StaticVariants /\ TransformReturned) =>
     /\ \A i \in 1..Len(sites) : sites[i].name \notin PinnedNames
     /\ \A k \in 1..Len(calls) : \A j \in 1..Len(calls[k].params) :
          calls[k].params[j].name \in PinnedNames =>
            calls[k].params[j] = ConstantOne(calls[k].params[j].name)
     /\ calls = ExponentialAdstockPinnedToOne

\* custom_priors.get(name, 1) as a plain value.
PinnedValue(name) ==
  IF name \in DOMAIN custom_priors
    THEN Arg(name, "custom", custom_priors[name], 0,
             IF ndim = 3 THEN <<1>> ELSE <<>>)
    ELSE ConstantOne(name)

ExponentialAdstockPinned ==
  LET ref == transform_exponential_adstock(
               media_shape, custom_priors, normalise_or(transform_kwargs, FALSE))
  IN [k \in 1..Len(ref.calls) |->
        [ref.calls[k] EXCEPT !.params =
           [j \in 1..Len(@) |->
              IF @[j].name \in PinnedNames THEN PinnedValue(@[j].name)
              ELSE @[j]]]]

\* C4, amended: in the three static variants the pinned parameters are
\* never sampled and are the plain value custom_priors.get(name, 1): the
\* constant 1 when custom_priors has no entry under the pinned name, that
\* entry otherwise; the calls made are those of exponential_adstock with
\* the pinned arguments fixed to those values.
C4_PinnedDefaultToOne ==
  (transform_function \in StaticVariants /\ TransformReturned) =>
     /\ \A i \in 1..Len(sites) : sites[i].name \notin PinnedNames
     /\ \A k \in 1..Len(calls) : \A j \in 1..Len(calls[k].params) :
          calls[k].params[j].name \in PinnedNames =>
            /\ calls[k].params[j].origin # "site"
            /\ calls[k].params[j].name \notin DOMAIN custom_priors =>
                  calls[k].params[j] = ConstantOne(calls[k].params[j].name)
            /\ calls[k].params[j].name \in DOMAIN custom_priors =>
                  calls[k].params[j].fn = custom_priors[calls[k].params[j].name]
     /\ calls = ExponentialAdstockPinned
     /\ \A name \in PinnedNames :
          \E k \in 1..Len(calls) : \E j \in 1..Len(calls[k].params) :
            calls[k].params[j].name = name

C4_Witness ==
  /\ transform_function = "exponential_adstock_static_dim_decay"
  /\ TransformReturned /\ ndim = 3 /\ DOMAIN custom_priors = {}
  /\ sites[Len(sites)].name = "media_transformed"
  /\ calls[1].params[1] = Arg(LAG_WEIGHT, "literal", NoPrior, 1, <<1>>)
  /\ calls[2].params[1] = Arg(SLOPE, "literal", NoPrior, 1, <<1>>)

\* The entry of a parameter of shape pshape that broadcasting applies at
\* the cell idx of the data.
AppliedIndex(pshape, idx) ==
  [k \in 1..Len(pshape) |->
     IF pshape[k] = 1 THEN 1 ELSE idx[Len(idx) - Len(pshape) + k]]

\* The parameter has exactly one trailing unit axis, and the entry applied
\* at a cell is the one of the cell's channel, whatever the geo.
TrailingUnitAxis(p) ==
  /\ p.shape = (IF p.origin = "site" THEN <<n_channels, 1>> ELSE <<1>>)
  /\ \A idx \in Indices(media_shape) :
       AppliedIndex(p.shape, idx)
         = (IF p.origin = "site" THEN <<idx[2], 1>> ELSE <<1>>)

\* C5 as claimed: in geo mode, in every transform, every per-channel
\* parameter (sampled or pinned) gets exactly one trailing unit axis before
\* it is passed to a primitive, ad_effect_retention_rate and
\* peak_effect_delay of the carryover primitive included.
C5_EveryParameterExpanded ==
  (ndim = 3 /\ TransformReturned) =>
     \A k \in 1..Len(calls) : \A j \in 1..Len(calls[k].params) :
        TrailingUnitAxis(calls[k].params[j])

\* C5, amended: in geo mode every per-channel parameter gets exactly one
\* trailing unit axis before it is passed to a primitive, except
\* ad_effect_retention_rate and peak_effect_delay, which the carryover
\* primitive receives with their sampled shape (C,).
C5_ParametersExpandedButCarryoverKernel ==
  (ndim = 3 /\ TransformReturned) =>
     \A k \in 1..Len(calls) : \A j \in 1..Len(calls[k].params) :
        IF calls[k].primitive = "carryover"
          THEN calls[k].params[j].shape = <<n_channels>>
          ELSE TrailingUnitAxis(calls[k].params[j])

C5_Witness ==
  /\ ndim = 3 /\ n_geos > 1 /\ n_channels > 1 /\ n_channels # n_geos
  /\ transform_function = "carryover" /\ TransformReturned
  /\ calls[1].params[1].shape = <<n_channels>>
  /\ calls[2].params[1].shape = <<n_channels, 1>>

\* C6: a media tensor whose rank is neither 2 nor 3 is rejected instead of
\* being taken as a national or geo model (nothing is declared for it),
\* and ranks 2 and 3 never raise the error of the rank.
C6_UnsupportedRankRejected ==
  /\ ndim \notin {2, 3} => (sites = <<>> /\ pc \in {"shapes", "failed"})
  /\ ndim \in {2, 3} => error # "IndexError"

\* C7: the 'coef_media' site has shape (C,) in national mode and (C, G)
\* in geo mode (4 channels and 3 geos give (4, 3)), and the coefficient
\* handed to the channel contraction is the value of that site.
CoefMediaShape ==
  IF ndim = 3 THEN <<n_channels, n_geos>> ELSE <<n_channels>>

CoefMediaSampled ==
  \E i \in 1..Len(sites) : sites[i].name = "coef_media"

C7_CoefMediaShape ==
  (ndim \in {2, 3} /\ CoefMediaSampled) =>
     /\ \A i \in 1..Len(sites) :
          sites[i].name = "coef_media" =>
            /\ PlateShape(sites[i].plates) = CoefMediaShape
            /\ \E k \in 1..Len(sites[i].plates) :
                 /\ sites[i].plates[k].size = n_channels
                 /\ sites[i].plates[k].dim = (IF ndim = 3 THEN -2 ELSE -1)
            /\ ndim = 3 =>
                 \E k \in 1..Len(sites[i].plates) :
                   /\ sites[i].plates[k].size = n_geos
                   /\ sites[i].plates[k].dim = -1
     /\ coef_media.shape = CoefMediaShape
     /\ DOMAIN coef_media.val = Indices(CoefMediaShape)
     /\ coef_media = Drawn("coef_media", seed, CoefMediaShape)
     /\ Contracted => contraction.coef = coef_media

C7_Witness ==
  /\ ndim = 3 /\ media_shape[2] = 4 /\ media_shape[3] = 3
  /\ Contracted
  /\ contraction.coef.shape = <<4, 3>>
  /\ Cardinality(DOMAIN contraction.coef.val) = 12

\* The shape numpy broadcasting gives to two shapes, or Incompatible.
Incompatible == <<0>>

Broadcast(a, b) ==
  LET n == IF Len(a) > Len(b) THEN Len(a) ELSE Len(b)
      pad(s) == [k \in 1..n |-> IF k <= n - Len(s) THEN 1 ELSE s[k - (n - Len(s))]]
  IN IF \/ a = Incompatible \/ b = Incompatible
        \/ \E k \in 1..n : pad(a)[k] # pad(b)[k] /\ pad(a)[k] # 1 /\ pad(b)[k] # 1
       THEN Incompatible
       ELSE [k \in 1..n |-> IF pad(a)[k] > pad(b)[k] THEN pad(a)[k] ELSE pad(b)[k]]

\* The parameters of the carryover kernel: the primitive builds its lag
\* weights from them, one entry per channel.
KernelNames == {AD_EFFECT_RETENTION_RATE, PEAK_EFFECT_DELAY}

\* A primitive takes the parameter p with data of the given shape: a
\* kernel parameter has one entry per channel of the data; any other
\* parameter broadcasts against the data without changing its shape.
Accepts(data_shape, p) ==
  IF p.name \in KernelNames
    THEN p.shape = <<data_shape[2]>>
    ELSE Broadcast(data_shape, p.shape) = data_shape

\* The shape of the result of the first n calls made: a primitive returns
\* a tensor of the shape of its data, given that its data is media_data
\* (first call) or the result of the call before and that it takes each of
\* its parameters; Incompatible otherwise.
RECURSIVE ResultShape(_, _, _)
ResultShape(shape, made, n) ==
  IF n = 0 THEN shape
  ELSE LET data == ResultShape(shape, made, n - 1)
       IN IF /\ data # Incompatible
             /\ made[n].data = (IF n = 1 THEN "media_data"
                                         ELSE made[n - 1].primitive)
             /\ \A j \in 1..Len(made[n].params) :
                  Accepts(data, made[n].params[j])
            THEN data
            ELSE Incompatible

TransformedShape == ResultShape(media_shape, calls, Len(calls))

ShapePreservedNational ==
  /\ DOMAIN custom_priors = {} /\ TransformReturned
  /\ transform_function = "hill_adstock"
  /\ media_shape = <<MaxT, 2>>
  /\ TransformedShape = <<MaxT, 2>>

\* What the transform function of the given name returns.
transform_result(name, shape, priors, kwargs) ==
  CASE name = "adstock" ->
         transform_adstock(shape, priors, normalise_or(kwargs, TRUE))
    [] name = "hill_adstock" ->
         transform_hill_adstock(shape, priors, normalise_or(kwargs, TRUE))
    [] name = "carryover" ->
         transform_carryover(shape, priors,
                             number_lags_or(kwargs, DefaultNumberLags))
    [] name = "exponential_adstock" ->
         transform_exponential_adstock(shape, priors,
                                       normalise_or(kwargs, FALSE))
    [] name = "exponential_adstock_static_dim" ->
         transform_exponential_adstock_static_dim(
           shape, priors, normalise_or(kwargs, FALSE))
    [] name = "exponential_adstock_static_decay" ->
         transform_exponential_adstock_static_decay(
           shape, priors, normalise_or(kwargs, FALSE))
    [] name = "exponential_adstock_static_dim_decay" ->
         transform_exponential_adstock_static_dim_decay(
           shape, priors, normalise_or(kwargs, FALSE))

\* The names the declaration samples from a prior that can be overridden.
SampledNames ==
  {INTERCEPT, SIGMA, COEF_EXTRA_FEATURES}
  \cup (IF transform_function \in TransformNames
          THEN DOMAIN get_transform_default_priors[transform_function]
          ELSE {})

\* custom_priors without the entries the active transform does not sample.
WithoutIrrelevant ==
  [name \in DOMAIN custom_priors \cap SampledNames |-> custom_priors[name]]

\* custom_priors without the entries the active transform neither samples
\* nor reads as a pinned value.
WithoutUnread ==
  [name \in DOMAIN custom_priors \cap (SampledNames \cup PinnedNames) |->
     custom_priors[name]]

\* The sites declared up to media_transformed with the given custom priors.
DeclaredWith(priors) ==
  <<intercept_site(priors, n_geos), sigma_site(priors, n_geos)>>
  \o coef_media_sites(ndim, n_channels, n_geos)
  \o transform_result(transform_function, media_shape, priors,
                      transform_kwargs).sites
  \o <<Site("media_transformed", "deterministic", <<>>, NoPrior)>>

\* C9 as claimed: a custom_priors entry under a name the active transform
\* does not sample ('exponent' under hill_adstock, 'slope' under
\* exponential_adstock_static_dim) raises no error and changes nothing:
\* the sites declared, their priors and the transformed media are those of
\* the declaration without that entry.
C9_IrrelevantOverridesIgnored ==
  (transform_function \in TransformNames /\ TransformReturned) =>
     /\ SubSeq(sites, 1, Len(DeclaredWith(WithoutIrrelevant)))
          = DeclaredWith(WithoutIrrelevant)
     /\ calls = transform_result(transform_function, media_shape,
                                 WithoutIrrelevant, transform_kwargs).calls

\* C9, amended: a custom_priors entry under a name the active transform
\* neither samples nor reads as a pinned value ('exponent' under
\* hill_adstock, but not 'slope' under exponential_adstock_static_dim)
\* raises no error and changes nothing.
C9_UnreadOverridesIgnored ==
  (transform_function \in TransformNames /\ TransformReturned) =>
     /\ SubSeq(sites, 1, Len(DeclaredWith(WithoutUnread)))
          = DeclaredWith(WithoutUnread)
     /\ calls = transform_result(transform_function, media_shape,
                                 WithoutUnread, transform_kwargs).calls
     /\ \A i \in 1..Len(sites) :
          sites[i].name \in SampledNames \cup {"coef_media", "mu", "target",
            "channel_coef_media", "media_transformed"}
     /\ error \in {"none", "ValueError"}

C9_Witness ==
  /\ transform_function = "hill_adstock"
  /\ DOMAIN custom_priors = {EXPONENT}
  /\ pc = "done"
  /\ WithoutUnread = <<>>
  /\ \A i \in 1..Len(sites) : sites[i].fn # custom_priors[EXPONENT]

\* C10: every sampled parameter (intercept, sigma, coef_extra_features and
\* each parameter of the active transform's default table) is drawn from
\* custom_priors[name] when name is a key of custom_priors and from the
\* catalog default otherwise; the resolution never fails, and every
\* parameter of the table is sampled.
CatalogDefault(name) ==
  IF name \in DOMAIN get_default_priors
    THEN get_default_priors[name]
    ELSE get_transform_default_priors[transform_function][name]

C10_PriorsResolved ==
  /\ \A i \in 1..Len(sites) :
       (sites[i].type = "sample" /\ sites[i].name \in SampledNames) =>
          sites[i].fn = (IF sites[i].name \in DOMAIN custom_priors
                           THEN custom_priors[sites[i].name]
                           ELSE CatalogDefault(sites[i].name))
  /\ transform_function \in TransformNames => error # "KeyError"
  /\ TransformReturned =>
       \A name \in DOMAIN get_transform_default_priors[transform_function] :
         \E i \in 1..Len(sites) :
           sites[i].name = name /\ sites[i].type = "sample"
  /\ pc \notin {"shapes", "intercept", "sigma", "failed"} =>
       /\ sites[1].name = INTERCEPT /\ sites[1].type = "sample"
       /\ sites[2].name = SIGMA /\ sites[2].type = "sample"

C10_Witness ==
  /\ pc = "done" /\ transform_function = "carryover"
  /\ extra_features.given
  /\ DOMAIN custom_priors = {PEAK_EFFECT_DELAY}
  /\ \E i \in 1..Len(sites) :
       /\ sites[i].name = PEAK_EFFECT_DELAY
       /\ sites[i].fn = custom_priors[PEAK_EFFECT_DELAY]
  /\ \E i \in 1..Len(sites) :
       sites[i].name = EXPONENT /\ sites[i].fn = Dist("Beta", 9, 1)
  /\ \E i \in 1..Len(sites) :
       sites[i].name = COEF_EXTRA_FEATURES /\ sites[i].fn = Dist("Normal", 0, 1)

\* The statements from `if extra_features is not None` on have run.
ExtraFeaturesHandled == pc \in {"mu", "target", "done"} \/ extra_features.given

Features == 1..extra_features.shape[2]

\* The plate shape the coef_extra_features site is expected to have: (F,)
\* for extra features [T, F], (F, G) for extra features [T, F, G].
ExpectedExtraShape ==
  IF Len(extra_features.shape) = 3
    THEN <<extra_features.shape[2], extra_features.shape[3]>>
    ELSE <<extra_features.shape[2]>>

\* intercept + sum over c of transformedMedia * coef_media, at every t.
MediaPrediction ==
  [t \in Times |->
     intercept.val[<<1>>]
     + SetSum(Channels,
              [c \in Channels |->
                 media_transformed.val[<<t, c>>] * coef_media.val[<<c>>]])]

\* C11: when extra features are supplied, coef_extra_features is sampled
\* with plate shape (F,) for extra features [T, F] and (F, G) for extra
\* features [T, F, G], the contraction over the feature axis succeeds, and
\* mu is the media prediction plus that effect at every t or (t, g); when
\* they are not supplied no coef_extra_features site is declared and mu is
\* the media prediction alone.
C11_ExtraFeaturesMu ==
  /\ extra_features.given =>
       LET data == ExtraFeatureData(extra_features.shape)
       IN /\ \E i \in 1..Len(sites) :
               /\ sites[i].name = COEF_EXTRA_FEATURES
               /\ sites[i].type = "sample"
               /\ PlateShape(sites[i].plates) = ExpectedExtraShape
          /\ coef_extra_features.shape = ExpectedExtraShape
          /\ error = "none"
          /\ pc = "done" =>
               IF Len(extra_features.shape) = 3
                 THEN /\ mu.shape = <<media_shape[1], extra_features.shape[3]>>
                      /\ \A t \in Times, g \in 1..extra_features.shape[3] :
                           mu.val[<<t, g>>] =
                             MediaPrediction[t]
                             + SetSum(Features,
                                      [f \in Features |->
                                         data.val[<<t, f, g>>]
                                         * coef_extra_features.val[<<f, g>>]])
                 ELSE /\ mu.shape = <<media_shape[1]>>
                      /\ \A t \in Times :
                           mu.val[<<t>>] =
                             MediaPrediction[t]
                             + SetSum(Features,
                                      [f \in Features |->
                                         data.val[<<t, f>>]
                                         * coef_extra_features.val[<<f>>]])
  /\ (ExtraFeaturesHandled /\ ~extra_features.given) =>
       /\ \A i \in 1..Len(sites) : sites[i].name # COEF_EXTRA_FEATURES
       /\ pc = "done" =>
            /\ mu.shape = <<media_shape[1]>>
            /\ \A t \in Times : mu.val[<<t>>] = MediaPrediction[t]

\* What the code does for extra features [T, F]: plate shape (F,), the
\* contraction "tf, f -> t", and mu = media prediction + effect.
NationalExtraFeaturesMu ==
  (extra_features.given /\ Len(extra_features.shape) = 2) =>
     /\ coef_extra_features.shape = <<extra_features.shape[2]>>
     /\ error = "none"
     /\ pc = "done" =>
          \A t \in Times :
            mu.val[<<t>>] =
              MediaPrediction[t]
              + SetSum(Features,
                       [f \in Features |->
                          ExtraFeatureData(extra_features.shape).val[<<t, f>>]
                          * coef_extra_features.val[<<f>>]])

\* What the code does for extra features [T, F, G]: the media contraction
\* lets only national runs through, geo_shape is then (), the plate shape
\* is (F,) and the contraction "tfg, fg -> tg" raises.
GeoExtraFeaturesFail ==
  (extra_features.given /\ Len(extra_features.shape) = 3) =>
     /\ ndim = 2
     /\ coef_extra_features.shape = <<extra_features.shape[2]>>
     /\ pc = "failed" /\ error = "ValueError"

\* The number of media coefficient sites: channel_coef_media and coef_media
\* in geo mode, coef_media alone in national mode.
NumCoefSites == IF ndim = 3 THEN 2 ELSE 1

\* The sampled parameters the table row of the active transform lists; a
\* callable outside the table has no row and samples nothing.
TableRow ==
  IF transform_function \in TransformNames
    THEN DOMAIN get_transform_default_priors[transform_function]
    ELSE {}

\* The position of media_transformed in the order of sites.
TransformedAt == 2 + NumCoefSites + Cardinality(TableRow) + 1

\* A site sampled under one plate of the given size.
SampledUnder(site, size) ==
  /\ site.type = "sample"
  /\ Len(site.plates) = 1
  /\ site.plates[1].size = size

\* C12: the sites of a declaration are registered in this order: intercept
\* (plate size = number of geos, 1 in national mode), sigma (same plate
\* size), the media coefficient site(s) ending in coef_media, exactly the
\* sampled parameters of the active transform's table row (each under a
\* plate of size = number of channels, none for
\* exponential_adstock_static_dim_decay), the deterministic
\* media_transformed, coef_extra_features if and only if extra features are
\* supplied, the deterministic mu, and last the observed target with a
\* Normal(mu, sigma) likelihood; no site is declared after target and none
\* twice.  Every declaration in progress has declared a prefix of that
\* order, and every successful one the whole of it.
C12_SiteOrder ==
  /\ \A i, j \in 1..Len(sites) : i # j => sites[i].name # sites[j].name
  /\ \A i \in 1..Len(sites) : sites[i].name = "target" => i = Len(sites)
  /\ Len(sites) >= 1 =>
       sites[1].name = INTERCEPT /\ SampledUnder(sites[1], n_geos)
  /\ Len(sites) >= 2 =>
       sites[2].name = SIGMA /\ SampledUnder(sites[2], n_geos)
  /\ Len(sites) >= 3 =>
       /\ Len(sites) >= 2 + NumCoefSites
       /\ ndim = 3 => sites[3].name = "channel_coef_media"
       /\ sites[2 + NumCoefSites].name = "coef_media"
       /\ \A i \in 3..(2 + NumCoefSites) :
            sites[i].type = "sample" /\ sites[i].fn = MediaNormal
  /\ Len(sites) > 2 + NumCoefSites =>
       /\ transform_function # UnknownTransform
       /\ Len(sites) >= TransformedAt
       /\ {sites[i].name : i \in (3 + NumCoefSites)..(TransformedAt - 1)}
            = TableRow
       /\ \A i \in (3 + NumCoefSites)..(TransformedAt - 1) :
            SampledUnder(sites[i], media_shape[2])
       /\ transform_function = "exponential_adstock_static_dim_decay" =>
            TransformedAt = 3 + NumCoefSites
       /\ sites[TransformedAt].name = "media_transformed"
       /\ sites[TransformedAt].type = "deterministic"
       /\ \A i \in (TransformedAt + 1)..Len(sites) :
            sites[i].name \in {COEF_EXTRA_FEATURES, "mu", "target"}
       /\ (\E i \in 1..Len(sites) : sites[i].name = COEF_EXTRA_FEATURES) <=>
            extra_features.given
       /\ extra_features.given =>
            /\ sites[TransformedAt + 1].name = COEF_EXTRA_FEATURES
            /\ sites[TransformedAt + 1].type = "sample"
       /\ \A i \in 1..Len(sites) :
            sites[i].name = "mu" =>
              /\ i = TransformedAt + 1 + (IF extra_features.given THEN 1 ELSE 0)
              /\ sites[i].type = "deterministic"
  /\ pc = "done" =>
       /\ error = "none"
       /\ Len(sites) = TransformedAt + 2
                         + (IF extra_features.given THEN 1 ELSE 0)
       /\ sites[Len(sites) - 1].name = "mu"
       /\ sites[Len(sites)].name = "target"
       /\ sites[Len(sites)].type = "observed"
       /\ sites[Len(sites)].fn = TargetNormal

C12_Witness ==
  /\ pc = "done"
  /\ transform_function = "hill_adstock"
  /\ media_shape = <<MaxT, MaxC>>
  /\ extra_features.given
  /\ Len(sites) = 10
  /\ sites[4].name = LAG_WEIGHT /\ sites[4].plates[1].size = MaxC
  /\ sites[7].name = "media_transformed"
  /\ sites[8].name = COEF_EXTRA_FEATURES
  /\ sites[9].name = "mu"
  /\ sites[10].name = "target"

\* A geo declaration, as far as it gets: the sites up to media_transformed
\* in order, intercept and sigma under a plate of the size of the geo axis.
GeoSitesDeclared ==
  /\ ndim = 3 /\ media_shape[3] = MaxG /\ pc = "failed"
  /\ transform_function = "carryover"
  /\ Len(sites) = 8
  /\ sites[1].plates[1].size = MaxG

====
